---- MODULE Spec2Model ----
(***************************************************************************)
(* The inode layer of filesys/inode.c: on-disk inode records with 124      *)
(* direct slots and a two-level index of 128-slot sectors, the allocation  *)
(* walk of inode_create, the address translation of byte_to_sector, the    *)
(* open-inode list with its reference, removed and deny-write state, the   *)
(* deallocation walk of inode_close, and sector-chunked read and write.    *)
(*                                                                         *)
(* The block device is a map from sector number to 512 bytes; a sector     *)
(* never written reads as zeros.  The free map is the set of free sectors  *)
(* and hands out the lowest free sector first.                             *)
(***************************************************************************)
EXTENDS Integers, Sequences, FiniteSets, TLC

\* ------------------------------------------------------------ constants

BLOCK_SECTOR_SIZE == 512
DIRECT_BLOCK == 124
MAX_BLOCK_NUMBER == 16637
INODE_MAGIC == 1229868868
IB_SLOTS == 128
NOT_FOUND == -1

\* ------------------------------------------------------------ bounds

\* Number of sectors of the block device.
NumSectors == 300
\* Largest reference count the callers build up on one inode.
MaxOpen == 2
\* Number of successful inode_create calls in one run.
MaxCreates == 2
\* Number of inode_write_at calls that reach the device in one run.
MaxWrites == 1
\* Number of inode_deny_write calls in one run.
MaxDenies == 2
\* Number of threads that call inode_open at the same time.
NumThreads == 2

Sectors == 0 .. (NumSectors - 1)

Threads == 1 .. NumThreads

\* ------------------------------------------------------------ helpers

Min(S) == CHOOSE x \in S : \A y \in S : x <= y

MinOf(a, b) == IF a < b THEN a ELSE b

\* A loop of the code: Body is one evaluation of its condition followed, when
\* the condition holds, by one turn of its body; it sets st.done when the
\* loop is left.  n is any number the loop's turns stay below.  The halving
\* only keeps the evaluation shallow.
RECURSIVE Repeat(_, _, _)
Repeat(Body(_), st, n) ==
  IF st.done \/ n = 0 THEN st
  ELSE IF n = 1 THEN Body(st)
  ELSE Repeat(Body, Repeat(Body, st, n \div 2), n - (n \div 2))

Pow256(i) == CASE i = 0 -> 1 [] i = 1 -> 256 [] i = 2 -> 65536 [] OTHER -> 16777216

\* Byte i (0 = least significant) of the 32-bit word w.
ByteOf(w, i) == (w \div Pow256(i)) % 256

\* The 32-bit little-endian word stored at word index k of a sector image,
\* as the int it is (a word with its top bit set is negative: as a sector
\* number it is past every device, as a length it is the off_t read).
WordAt(bytes, k) ==
  bytes[4 * k] + 256 * bytes[4 * k + 1] + 65536 * bytes[4 * k + 2]
    + 16777216 * (IF bytes[4 * k + 3] >= 128 THEN bytes[4 * k + 3] - 256
                  ELSE bytes[4 * k + 3])

\* (block_sector_t) x for a count x: a negative int becomes a count above
\* every number the walks reach.
AsCount(x) == IF x < 0 THEN 2147483647 ELSE x

ZeroSector == [j \in 0 .. (BLOCK_SECTOR_SIZE - 1) |-> 0]

\* struct indirect_block as its sector image.
EncodeIndex(ib) ==
  [j \in 0 .. (BLOCK_SECTOR_SIZE - 1) |-> ByteOf(ib[j \div 4], j % 4)]

\* A calloc'ed struct indirect_block.
ZeroIndex == [k \in 0 .. (IB_SLOTS - 1) |-> 0]

\* A calloc'ed struct inode_disk.
ZeroInodeDisk ==
  [sectors |-> [k \in 0 .. (DIRECT_BLOCK - 1) |-> 0], ib |-> 0,
   is_directory |-> 0, length |-> 0, magic |-> 0]

\* A struct inode_disk image that keeps only the low two bytes of length.
EncodeInode_short_length(d) ==
  [j \in 0 .. (BLOCK_SECTOR_SIZE - 1) |->
     IF j < 4 * DIRECT_BLOCK THEN ByteOf(d.sectors[j \div 4], j % 4)
     ELSE IF j < 4 * DIRECT_BLOCK + 4 THEN ByteOf(d.ib, j % 4)
     ELSE IF j = 4 * DIRECT_BLOCK + 4 THEN d.is_directory
     ELSE IF j < 4 * DIRECT_BLOCK + 8 THEN 0
     ELSE IF j < 4 * DIRECT_BLOCK + 10 THEN ByteOf(d.length, j % 4)
     ELSE IF j < 4 * DIRECT_BLOCK + 12 THEN 0
     ELSE ByteOf(d.magic, j % 4)]

\* struct inode_disk as its sector image: sectors[124], ib, is_directory and
\* three bytes of padding, length, magic.
EncodeInode(d) ==
  [j \in 0 .. (BLOCK_SECTOR_SIZE - 1) |->
     IF j < 4 * DIRECT_BLOCK THEN ByteOf(d.sectors[j \div 4], j % 4)
     ELSE IF j < 4 * DIRECT_BLOCK + 4 THEN ByteOf(d.ib, j % 4)
     ELSE IF j = 4 * DIRECT_BLOCK + 4 THEN d.is_directory
     ELSE IF j < 4 * DIRECT_BLOCK + 8 THEN 0
     ELSE IF j < 4 * DIRECT_BLOCK + 12 THEN ByteOf(d.length, j % 4)
     ELSE ByteOf(d.magic, j % 4)]

\* The struct inode_disk a sector image is read as.
DecodeInode(bytes) ==
  [sectors |-> [k \in 0 .. (DIRECT_BLOCK - 1) |-> WordAt(bytes, k)],
   ib |-> WordAt(bytes, DIRECT_BLOCK),
   is_directory |-> bytes[4 * DIRECT_BLOCK + 4],
   length |-> WordAt(bytes, DIRECT_BLOCK + 2),
   magic |-> WordAt(bytes, DIRECT_BLOCK + 3)]

\* ------------------------------------------------------------ block device

block_read(dsk, s) == IF s \in DOMAIN dsk THEN dsk[s] ELSE ZeroSector

block_write(dsk, s, bytes) ==
  [t \in (DOMAIN dsk) \cup {s} |-> IF t = s THEN bytes ELSE dsk[t]]

\* ------------------------------------------------------------ free map

free_map_unused(fm) == Cardinality(fm)

\* The highest free sector at or below s, or -1 when there is none.
RECURSIVE ScanDown(_, _)
ScanDown(fm, s) == IF s < 0 \/ s \in fm THEN s ELSE ScanDown(fm, s - 1)

\* free_map_allocate (1, &position): the lowest free sector, or none.
free_map_allocate(fm) ==
  IF fm = {} THEN [ok |-> FALSE, fm |-> fm, position |-> 0]
  ELSE LET s == Min(fm) IN [ok |-> TRUE, fm |-> fm \ {s}, position |-> s]

free_map_release(fm, s) == fm \cup {s}

\* ------------------------------------------------------------ allocation planner

\* bytes_to_sectors: DIV_ROUND_UP (size, BLOCK_SECTOR_SIZE).
bytes_to_sectors(size) == (size + BLOCK_SECTOR_SIZE - 1) \div BLOCK_SECTOR_SIZE

compute_total_sectors(sectors) ==
  IF sectors <= DIRECT_BLOCK THEN sectors
  ELSE LET second_level == (sectors - DIRECT_BLOCK) \div IB_SLOTS
           indirect_sectors == sectors - DIRECT_BLOCK
       IN  indirect_sectors + second_level + 1 + DIRECT_BLOCK

\* One free_map_allocate (1, &position) of the walk; kind is bookkeeping of
\* what the sector was allocated for.
WalkAllocate(w, kind) ==
  LET r == free_map_allocate(w.fm)
      p == IF r.ok THEN r.position ELSE w.position
  IN  [w EXCEPT !.fm = r.fm, !.position = p,
                !.log = Append(@, [sector |-> p, kind |-> kind])]

\* for (i = 0; i < total_sectors && i < DIRECT_BLOCK; i++)
DirectLoop(total_sectors, w) ==
  IF w.i < total_sectors /\ w.i < DIRECT_BLOCK
  THEN LET a == WalkAllocate(w, "data")
       IN  [a EXCEPT !.di.sectors[w.i] = a.position, !.i = w.i + 1]
  ELSE [w EXCEPT !.done = TRUE]

\* for (k = 0; (k < 128) && (i + k < total_sectors); k++)
SecondLevelLoop(total_sectors, w) ==
  IF w.k < IB_SLOTS /\ w.i + w.k < total_sectors
  THEN LET a == WalkAllocate(w, "data")
       IN  [a EXCEPT !.second_level[w.k] = a.position, !.k = w.k + 1]
  ELSE [w EXCEPT !.done = TRUE]

\* while (i < total_sectors): one second-level index sector and its data
\* sectors per turn.
FirstLevelLoop(total_sectors, w) ==
  IF w.i < total_sectors
  THEN IF ~(w.ib_index < IB_SLOTS)
       THEN [w EXCEPT !.panic = TRUE, !.done = TRUE]
       ELSE LET a == WalkAllocate(w, "second")
                b == [a EXCEPT !.second_level = ZeroIndex,
                               !.first_level[w.ib_index] = a.position,
                               !.i = w.i + 1, !.k = 0]
                c == Repeat(LAMBDA x : SecondLevelLoop(total_sectors, x), b,
                            IB_SLOTS + 1)
            IN  [c EXCEPT !.i = c.i + c.k,
                          !.dsk = block_write(c.dsk, c.first_level[w.ib_index],
                                              EncodeIndex(c.second_level)),
                          !.ib_index = w.ib_index + 1,
                          !.done = FALSE]
  ELSE [w EXCEPT !.done = TRUE]

\* write_sectors_to_disk (total_sectors, disk_inode), on free map fm and
\* device dsk.  index_mem: whether calloc gives the index buffers.
write_sectors_to_disk(total_sectors, disk_inode, fm, dsk, index_mem) ==
  LET w0 == [fm |-> fm, dsk |-> dsk, di |-> disk_inode, i |-> 0, k |-> 0,
             ib_index |-> 0, position |-> 0, first_level |-> ZeroIndex,
             second_level |-> ZeroIndex, log |-> <<>>, panic |-> FALSE,
             done |-> FALSE]
      d == [Repeat(LAMBDA x : DirectLoop(total_sectors, x), w0, DIRECT_BLOCK + 1)
              EXCEPT !.done = FALSE]
  IN  IF d.i < total_sectors
      THEN IF ~index_mem
           THEN [d EXCEPT !.panic = TRUE]
           ELSE LET a == WalkAllocate(d, "first")
                    f == Repeat(LAMBDA x : FirstLevelLoop(total_sectors, x),
                                [a EXCEPT !.di.ib = a.position, !.i = d.i + 1],
                                total_sectors + 1)
                IN  IF f.panic THEN f
                    ELSE [f EXCEPT !.dsk = block_write(f.dsk, f.di.ib,
                                                       EncodeIndex(f.first_level))]
      ELSE d

\* A ceiling test that lets every length through.
within_ceiling_always(length) == TRUE

\* The test of inode_create on the length: false when the sectors counted for
\* it exceed MAX_BLOCK_NUMBER and create returns false.
within_ceiling(length) ==
  ~(compute_total_sectors(bytes_to_sectors(length)) > MAX_BLOCK_NUMBER)

\* The counters of write_sectors_to_disk, without the sectors: one turn of
\* while (i < total_sectors).  The for loop inside runs k up to 128 or to
\* total_sectors - i, whichever is less.
AllocIndexLoop(total_sectors, w) ==
  IF w.i < total_sectors
  THEN IF ~(w.ib_index < IB_SLOTS)
       THEN [w EXCEPT !.panic = TRUE, !.done = TRUE]
       ELSE LET i == w.i + 1
                k == IF i < total_sectors
                     THEN MinOf(IB_SLOTS, total_sectors - i) ELSE 0
            IN  [w EXCEPT !.i = i + k, !.ib_index = w.ib_index + 1]
  ELSE [w EXCEPT !.done = TRUE]

\* The counters write_sectors_to_disk (total_sectors, ...) ends with:
\* ib_index is the number of first-level slots filled, panic whether
\* ASSERT (ib_index < 128) failed.
AllocIndexes(total_sectors) ==
  LET i == MinOf(total_sectors, DIRECT_BLOCK)
      w0 == [i |-> i, ib_index |-> 0, panic |-> FALSE, done |-> FALSE]
  IN  IF i < total_sectors
      THEN Repeat(LAMBDA x : AllocIndexLoop(total_sectors, x),
                  [w0 EXCEPT !.i = i + 1], total_sectors + 1)
      ELSE w0

\* The counters of the deallocation walk of inode_close, without the sectors:
\* one turn of while (i < index).  past is whether first_ib->sectors[k] was
\* read with k >= 128.
CloseIndexLoop(index, c) ==
  IF c.i < index
  THEN IF ~(c.k < IB_SLOTS) THEN [c EXCEPT !.past = TRUE, !.done = TRUE]
       ELSE [c EXCEPT !.i = c.i + MinOf(IB_SLOTS, index - c.i), !.k = c.k + 1]
  ELSE [c EXCEPT !.done = TRUE]

\* The counters the deallocation walk ends with for an inode of this length:
\* k is the number of first-level slots read.
CloseIndexes(length) ==
  LET index == AsCount(length \div BLOCK_SECTOR_SIZE)
      c0 == [i |-> MinOf(index, DIRECT_BLOCK), k |-> 0, past |-> FALSE,
             done |-> FALSE]
  IN  Repeat(LAMBDA x : CloseIndexLoop(index, x), c0, index + 1)

\* An inode_create that writes the inode record before it looks at the free
\* count, and so also when it fails.
inode_create_writes_first(sector, length, fm, dsk, inode_mem, index_mem) ==
  LET fail == [success |-> FALSE, fm |-> fm, dsk |-> dsk, log |-> <<>>,
               panic |-> FALSE, freed |-> TRUE, total_sectors |-> 0]
  IN  IF ~inode_mem THEN fail
      ELSE LET sectors == bytes_to_sectors(length)
               total_sectors == compute_total_sectors(sectors)
               di == [ZeroInodeDisk EXCEPT !.length = length,
                                           !.magic = INODE_MAGIC]
               first == block_write(dsk, sector, EncodeInode(di))
           IN  IF total_sectors > MAX_BLOCK_NUMBER
               THEN [fail EXCEPT !.freed = FALSE, !.total_sectors = total_sectors]
               ELSE IF free_map_unused(fm) >= total_sectors + 1
               THEN LET w == write_sectors_to_disk(total_sectors, di, fm, first,
                                                   index_mem)
                    IN  [success |-> ~w.panic, fm |-> w.fm,
                         dsk |-> block_write(w.dsk, sector, EncodeInode(w.di)),
                         log |-> w.log, panic |-> w.panic, freed |-> ~w.panic,
                         total_sectors |-> total_sectors]
               ELSE [fail EXCEPT !.total_sectors = total_sectors, !.dsk = first]

\* inode_create (sector, length) on free map fm and device dsk.
\* inode_mem, index_mem: whether calloc gives the inode buffer, the index
\* buffers.  freed: whether disk_inode was freed before the return.
inode_create(sector, length, fm, dsk, inode_mem, index_mem) ==
  LET fail == [success |-> FALSE, fm |-> fm, dsk |-> dsk, log |-> <<>>,
               panic |-> FALSE, freed |-> TRUE, total_sectors |-> 0]
  IN  IF ~inode_mem THEN fail
      ELSE LET sectors == bytes_to_sectors(length)
               total_sectors == compute_total_sectors(sectors)
           IN  IF total_sectors > MAX_BLOCK_NUMBER
               THEN [fail EXCEPT !.freed = FALSE, !.total_sectors = total_sectors]
               ELSE IF free_map_unused(fm) >= total_sectors + 1
               THEN LET di == [ZeroInodeDisk EXCEPT !.length = length,
                                                    !.magic = INODE_MAGIC]
                        w == write_sectors_to_disk(total_sectors, di, fm, dsk,
                                                   index_mem)
                    IN  IF w.panic
                        THEN [success |-> FALSE, fm |-> w.fm, dsk |-> w.dsk,
                              log |-> w.log, panic |-> TRUE, freed |-> FALSE,
                              total_sectors |-> total_sectors]
                        ELSE [success |-> TRUE, fm |-> w.fm,
                              dsk |-> block_write(w.dsk, sector, EncodeInode(w.di)),
                              log |-> w.log, panic |-> FALSE, freed |-> TRUE,
                              total_sectors |-> total_sectors]
               ELSE [fail EXCEPT !.total_sectors = total_sectors]

\* ------------------------------------------------------------ address translator

\* byte_to_sector (inode, pos) for the cached inode_disk data.  The two index
\* sectors are read through first_ib and second_ib, pointers that are never
\* set: ptr_ok is whether they happen to point at usable, distinct memory
\* (the reads then work as written); otherwise the access faults.
byte_to_sector(data, pos, dsk, ptr_ok) ==
  IF pos < data.length
  THEN LET index == pos \div BLOCK_SECTOR_SIZE
       IN  IF index < DIRECT_BLOCK
           THEN [sector |-> data.sectors[index], panic |-> FALSE]
           ELSE LET first_ib_index == (index - DIRECT_BLOCK) \div IB_SLOTS
                    second_ib_index == (index - DIRECT_BLOCK) % IB_SLOTS
                IN  IF ~ptr_ok \/ data.ib \notin Sectors
                    THEN [sector |-> NOT_FOUND, panic |-> TRUE]
                    ELSE LET second ==
                               WordAt(block_read(dsk, data.ib), first_ib_index)
                         IN  IF second \notin Sectors
                             THEN [sector |-> NOT_FOUND, panic |-> TRUE]
                             ELSE [sector |-> WordAt(block_read(dsk, second),
                                                     second_ib_index),
                                   panic |-> FALSE]
  ELSE [sector |-> NOT_FOUND, panic |-> FALSE]

\* inode_length (inode).
inode_length(inode) == inode.data.length

\* ------------------------------------------------------------ open-inode registry

\* The position of the record at address addr in the list open_inodes.
ElemOf(list, addr) == CHOOSE i \in 1 .. Len(list) : list[i].addr = addr

\* malloc (sizeof *inode): an address no live record has.
NewAddr(list) ==
  Min({a \in 1 .. (Len(list) + 1) : \A i \in 1 .. Len(list) : list[i].addr # a})

\* inode_reopen (inode).
inode_reopen(list, addr) ==
  IF addr # 0 THEN [list EXCEPT ![ElemOf(list, addr)].open_cnt = @ + 1] ELSE list

\* An inode_open that never looks for the sector in the list.
inode_open_always_new(list, sector, dsk, mem) ==
  IF ~mem THEN [list |-> list, inode |-> 0]
  ELSE LET inode == [addr |-> NewAddr(list), sector |-> sector,
                     open_cnt |-> 1, deny_write_cnt |-> 0, removed |-> FALSE,
                     data |-> DecodeInode(block_read(dsk, sector))]
       IN  [list |-> <<inode>> \o list, inode |-> inode.addr]

\* inode_open (sector).  mem: whether malloc gives the record.  The result's
\* inode is the address returned, 0 for a null pointer.
inode_open(list, sector, dsk, mem) ==
  LET found == {i \in 1 .. Len(list) : list[i].sector = sector}
  IN  IF found # {}
      THEN LET inode == list[Min(found)].addr
           IN  [list |-> inode_reopen(list, inode), inode |-> inode]
      ELSE IF ~mem THEN [list |-> list, inode |-> 0]
      ELSE LET inode == [addr |-> NewAddr(list), sector |-> sector,
                         open_cnt |-> 1, deny_write_cnt |-> 0, removed |-> FALSE,
                         data |-> DecodeInode(block_read(dsk, sector))]
           IN  [list |-> <<inode>> \o list, inode |-> inode.addr]

\* The first half of inode_open (sector): the for loop over open_inodes.  found
\* is whether it returned the record it reopened.
inode_open_scan(list, sector) ==
  LET found == {i \in 1 .. Len(list) : list[i].sector = sector}
  IN  IF found # {}
      THEN LET inode == list[Min(found)].addr
           IN  [found |-> TRUE, list |-> inode_reopen(list, inode),
                inode |-> inode]
      ELSE [found |-> FALSE, list |-> list, inode |-> 0]

\* A second half of inode_open that looks through the list once more and
\* reopens the record another thread has pushed for the sector.
inode_open_insert_rescans(list, sector, dsk, mem) ==
  LET found == {i \in 1 .. Len(list) : list[i].sector = sector}
  IN  IF found # {}
      THEN [list |-> inode_reopen(list, list[Min(found)].addr),
            inode |-> list[Min(found)].addr]
      ELSE IF ~mem THEN [list |-> list, inode |-> 0]
      ELSE LET inode == [addr |-> NewAddr(list), sector |-> sector,
                         open_cnt |-> 1, deny_write_cnt |-> 0, removed |-> FALSE,
                         data |-> DecodeInode(block_read(dsk, sector))]
           IN  [list |-> <<inode>> \o list, inode |-> inode.addr]

\* The second half of inode_open (sector), after a loop that found nothing:
\* malloc, list_push_front, the fields, block_read.
inode_open_insert(list, sector, dsk, mem) ==
  IF ~mem THEN [list |-> list, inode |-> 0]
  ELSE LET inode == [addr |-> NewAddr(list), sector |-> sector,
                     open_cnt |-> 1, deny_write_cnt |-> 0, removed |-> FALSE,
                     data |-> DecodeInode(block_read(dsk, sector))]
       IN  [list |-> <<inode>> \o list, inode |-> inode.addr]

\* A list_remove that leaves the list as it is.
list_remove_nothing(list, addr) == list

\* list_remove (&inode->elem).
list_remove(list, addr) ==
  SelectSeq(list, LAMBDA e : e.addr # addr)

\* One free_map_release (sector, 1) of the deallocation walk.
WalkRelease(c, sector) ==
  [c EXCEPT !.fm = free_map_release(@, sector), !.released = Append(@, sector)]

\* for (i = 0; i < DIRECT_BLOCK && i < index; i++)
CloseDirectLoop(data, index, c) ==
  IF c.i < DIRECT_BLOCK /\ c.i < index
  THEN [WalkRelease(c, data.sectors[c.i]) EXCEPT !.i = c.i + 1]
  ELSE [c EXCEPT !.done = TRUE]

\* while (i < index && r < 128) over the second-level index sector image.
CloseSecondLoop(second_ib, index, c) ==
  IF c.i < index /\ c.r < IB_SLOTS
  THEN [WalkRelease(c, WordAt(second_ib, c.r)) EXCEPT !.r = c.r + 1, !.i = c.i + 1]
  ELSE [c EXCEPT !.done = TRUE]

\* while (i < index) over the first-level index sector image.  Slot k of
\* first_ib is read with no bound on k: past the sector's 128 slots, and for
\* a slot that names no sector of the device, the kernel stops.
CloseFirstLoop(first_ib, index, dsk, c) ==
  IF c.i < index
  THEN IF ~(c.k < IB_SLOTS) \/ WordAt(first_ib, c.k) \notin Sectors
       THEN [c EXCEPT !.panic = TRUE, !.done = TRUE]
       ELSE LET second == WordAt(first_ib, c.k)
                d == Repeat(LAMBDA x : CloseSecondLoop(block_read(dsk, second),
                                                       index, x),
                            [c EXCEPT !.r = 0], IB_SLOTS + 1)
            IN  [WalkRelease(d, second) EXCEPT !.k = c.k + 1, !.done = FALSE]
  ELSE [c EXCEPT !.done = TRUE]

\* The deallocation walk of inode_close for a removed inode.  ptr_ok as in
\* byte_to_sector: the walk reads the index sectors through first_ib and
\* second_ib, which are never set.
CloseWalk(inode, fm, dsk, ptr_ok) ==
  LET index == AsCount(inode.data.length \div BLOCK_SECTOR_SIZE)
      c0 == [fm |-> fm, released |-> <<>>, i |-> 0, k |-> 0, r |-> 0,
             panic |-> FALSE, done |-> FALSE]
      d == [Repeat(LAMBDA x : CloseDirectLoop(inode.data, index, x), c0,
                   DIRECT_BLOCK + 1) EXCEPT !.done = FALSE]
      e == IF d.i < index
           THEN IF ~ptr_ok \/ inode.data.ib \notin Sectors
                THEN [d EXCEPT !.panic = TRUE]
                ELSE Repeat(LAMBDA x : CloseFirstLoop(block_read(dsk, inode.data.ib),
                                                      index, dsk, x),
                            d, MinOf(index, IB_SLOTS) + 1)
           ELSE d
  IN  IF e.panic THEN e ELSE WalkRelease(e, inode.sector)

\* An inode_close that deallocates a removed inode at every close, not only
\* the last.
inode_close_releases_early(list, addr, fm, dsk, ptr_ok) ==
  LET inode == list[ElemOf(list, addr)]
      c == IF inode.removed THEN CloseWalk(inode, fm, dsk, ptr_ok)
           ELSE [fm |-> fm, released |-> <<>>, panic |-> FALSE]
  IN  [list |-> IF inode.open_cnt - 1 = 0 THEN list_remove(list, addr)
                ELSE [list EXCEPT ![ElemOf(list, addr)].open_cnt = @ - 1],
       fm |-> c.fm, released |-> c.released, panic |-> c.panic,
       freed |-> (inode.open_cnt - 1 = 0) /\ ~c.panic]

\* inode_close (inode) for a non-null inode.
inode_close(list, addr, fm, dsk, ptr_ok) ==
  LET inode == list[ElemOf(list, addr)]
      same == [list |-> list, fm |-> fm, released |-> <<>>, panic |-> FALSE,
               freed |-> FALSE]
  IN  IF inode.open_cnt - 1 = 0
      THEN LET rest == list_remove(list, addr)
           IN  IF inode.removed
               THEN LET c == CloseWalk(inode, fm, dsk, ptr_ok)
                    IN  [list |-> rest, fm |-> c.fm, released |-> c.released,
                         panic |-> c.panic, freed |-> ~c.panic]
               ELSE [same EXCEPT !.list = rest, !.freed = TRUE]
      ELSE [same EXCEPT !.list[ElemOf(list, addr)].open_cnt = @ - 1]

\* inode_remove (inode).
inode_remove(list, addr) == [list EXCEPT ![ElemOf(list, addr)].removed = TRUE]

\* inode_deny_write (inode): the count after the increment, and whether the
\* assertion deny_write_cnt <= open_cnt fails.
inode_deny_write(list, addr) ==
  LET e == ElemOf(list, addr)
      l == [list EXCEPT ![e].deny_write_cnt = @ + 1]
  IN  [list |-> l, panic |-> ~(l[e].deny_write_cnt <= l[e].open_cnt)]

\* inode_allow_write (inode): both assertions come before the decrement.
inode_allow_write(list, addr) ==
  LET e == ElemOf(list, addr)
  IN  IF list[e].deny_write_cnt > 0 /\ list[e].deny_write_cnt <= list[e].open_cnt
      THEN [list |-> [list EXCEPT ![e].deny_write_cnt = @ - 1], panic |-> FALSE]
      ELSE [list |-> list, panic |-> TRUE]

\* ------------------------------------------------------------ I/O engine

\* Byte j of the caller's buffer holding pattern pat.
Pattern(pat, j) == (pat + j + (j \div BLOCK_SECTOR_SIZE)) % 256

\* The chunk of the loop body of inode_read_at and inode_write_at at the
\* current size and offset: sector_ofs, sector_left, chunk_size.
Chunk(inode, size, offset) ==
  LET sector_ofs == offset % BLOCK_SECTOR_SIZE
      inode_left == inode_length(inode) - offset
      sector_left == BLOCK_SECTOR_SIZE - sector_ofs
      min_left == MinOf(inode_left, sector_left)
  IN  [sector_ofs |-> sector_ofs, sector_left |-> sector_left,
       chunk_size |-> MinOf(size, min_left)]

\* while (size > 0) of inode_read_at.  st.chunks lists, per turn, the sector
\* read and the bytes copied from it; st.bounce is whether the bounce buffer
\* has been allocated.
ReadLoop(inode, dsk, bounce_mem, ptr_ok, st) ==
  IF st.size > 0
  THEN LET bs == byte_to_sector(inode.data, st.offset, dsk, ptr_ok)
           c == Chunk(inode, st.size, st.offset)
           adv == [st EXCEPT !.size = @ - c.chunk_size,
                             !.offset = @ + c.chunk_size,
                             !.bytes_read = @ + c.chunk_size,
                             !.chunks = Append(@, [sector |-> bs.sector,
                                                   sector_ofs |-> c.sector_ofs,
                                                   chunk_size |-> c.chunk_size])]
           stop == [st EXCEPT !.done = TRUE]
       IN  IF bs.panic THEN [stop EXCEPT !.panic = TRUE]
           ELSE IF c.chunk_size <= 0 THEN stop
           ELSE IF c.sector_ofs = 0 /\ c.chunk_size = BLOCK_SECTOR_SIZE
           THEN IF bs.sector \notin Sectors THEN [stop EXCEPT !.panic = TRUE]
                ELSE adv
           ELSE IF ~st.bounce /\ ~bounce_mem THEN stop
           ELSE IF bs.sector \notin Sectors
           THEN [stop EXCEPT !.panic = TRUE, !.bounce = TRUE]
           ELSE [adv EXCEPT !.bounce = TRUE]
  ELSE [st EXCEPT !.done = TRUE]

\* The bytes inode_read_at left in the caller's buffer: chunk after chunk, the
\* chunk's bytes of its sector.
ReadData(dsk, offset, st) ==
  [j \in 0 .. (st.bytes_read - 1) |->
     LET c == st.chunks[((offset + j) \div BLOCK_SECTOR_SIZE)
                          - (offset \div BLOCK_SECTOR_SIZE) + 1]
     IN  block_read(dsk, c.sector)[(offset + j) % BLOCK_SECTOR_SIZE]]

\* inode_read_at (inode, buffer, size, offset).
inode_read_at(inode, dsk, size, offset, bounce_mem, ptr_ok) ==
  LET st == Repeat(LAMBDA x : ReadLoop(inode, dsk, bounce_mem, ptr_ok, x),
                   [size |-> size, offset |-> offset, bytes_read |-> 0,
                    chunks |-> <<>>, bounce |-> FALSE, panic |-> FALSE,
                    done |-> FALSE],
                   size + 1)
  IN  [bytes_read |-> st.bytes_read, data |-> ReadData(dsk, offset, st),
       chunks |-> st.chunks, panic |-> st.panic]

\* A sector image for one chunk whose bounce buffer always starts as zeros.
WrittenSector_zero_bounce(dsk, sector_idx, c, pat, bytes_written) ==
  [j \in 0 .. (BLOCK_SECTOR_SIZE - 1) |->
     IF c.sector_ofs <= j /\ j < c.sector_ofs + c.chunk_size
     THEN Pattern(pat, bytes_written + j - c.sector_ofs)
     ELSE 0]

\* The sector image inode_write_at writes for one chunk: the caller's bytes
\* whole, or the bounce buffer (the sector as read, or zeros) with the
\* caller's bytes copied in at sector_ofs.
WrittenSector(dsk, sector_idx, c, pat, bytes_written) ==
  IF c.sector_ofs = 0 /\ c.chunk_size = BLOCK_SECTOR_SIZE
  THEN [j \in 0 .. (BLOCK_SECTOR_SIZE - 1) |-> Pattern(pat, bytes_written + j)]
  ELSE LET bounce == IF c.sector_ofs > 0 \/ c.chunk_size < c.sector_left
                     THEN block_read(dsk, sector_idx)
                     ELSE ZeroSector
       IN  [j \in 0 .. (BLOCK_SECTOR_SIZE - 1) |->
              IF c.sector_ofs <= j /\ j < c.sector_ofs + c.chunk_size
              THEN Pattern(pat, bytes_written + j - c.sector_ofs)
              ELSE bounce[j]]

\* while (size > 0) of inode_write_at.
WriteLoop(inode, pat, bounce_mem, ptr_ok, st) ==
  IF st.size > 0
  THEN LET bs == byte_to_sector(inode.data, st.offset, st.dsk, ptr_ok)
           c == Chunk(inode, st.size, st.offset)
           adv == [st EXCEPT !.size = @ - c.chunk_size,
                             !.offset = @ + c.chunk_size,
                             !.bytes_written = @ + c.chunk_size,
                             !.dsk = block_write(@, bs.sector,
                                       WrittenSector(st.dsk, bs.sector, c, pat,
                                                     st.bytes_written)),
                             !.chunks = Append(@, [sector |-> bs.sector,
                                                   sector_ofs |-> c.sector_ofs,
                                                   chunk_size |-> c.chunk_size])]
           stop == [st EXCEPT !.done = TRUE]
       IN  IF bs.panic THEN [stop EXCEPT !.panic = TRUE]
           ELSE IF c.chunk_size <= 0 THEN stop
           ELSE IF c.sector_ofs = 0 /\ c.chunk_size = BLOCK_SECTOR_SIZE
           THEN IF bs.sector \notin Sectors THEN [stop EXCEPT !.panic = TRUE]
                ELSE adv
           ELSE IF ~st.bounce /\ ~bounce_mem THEN stop
           ELSE IF bs.sector \notin Sectors
           THEN [stop EXCEPT !.panic = TRUE, !.bounce = TRUE]
           ELSE [adv EXCEPT !.bounce = TRUE]
  ELSE [st EXCEPT !.done = TRUE]

\* An inode_write_at that does not look at deny_write_cnt.
inode_write_at_ignores_deny(inode, dsk, pat, size, offset, bounce_mem, ptr_ok) ==
  LET st == Repeat(LAMBDA x : WriteLoop(inode, pat, bounce_mem, ptr_ok, x),
                   [size |-> size, offset |-> offset, bytes_written |-> 0,
                    dsk |-> dsk, chunks |-> <<>>, bounce |-> FALSE,
                    panic |-> FALSE, done |-> FALSE],
                   size + 1)
  IN  [bytes_written |-> st.bytes_written, dsk |-> st.dsk,
       chunks |-> st.chunks, panic |-> st.panic]

\* inode_write_at (inode, buffer, size, offset), the buffer holding pattern pat.
inode_write_at(inode, dsk, pat, size, offset, bounce_mem, ptr_ok) ==
  IF inode.deny_write_cnt # 0
  THEN [bytes_written |-> 0, dsk |-> dsk, chunks |-> <<>>, panic |-> FALSE]
  ELSE LET st == Repeat(LAMBDA x : WriteLoop(inode, pat, bounce_mem, ptr_ok, x),
                         [size |-> size, offset |-> offset, bytes_written |-> 0,
                          dsk |-> dsk, chunks |-> <<>>, bounce |-> FALSE,
                          panic |-> FALSE, done |-> FALSE],
                         size + 1)
       IN  [bytes_written |-> st.bytes_written, dsk |-> st.dsk,
            chunks |-> st.chunks, panic |-> st.panic]

\* ------------------------------------------------------------ state

VARIABLES
  free_map,     \* the free-space allocator: the set of free sectors
  disk,         \* the block device: sector |-> 512 bytes, for the sectors written
  open_inodes,  \* the list open_inodes of struct inode, front first
  files,        \* inode sectors holding a created inode that is not yet freed
  owned,        \* bookkeeping: inode sector |-> the allocations of its create
  creates,      \* number of successful inode_create calls so far
  writes,       \* number of inode_write_at calls that reached the device so far
  denies,       \* number of inode_deny_write calls so far
  panicked,     \* the kernel has stopped: an assertion or a wild access
  ret,          \* the last call and what it returned
  opening       \* per thread, how far it is inside an inode_open call

vars == <<free_map, disk, open_inodes, files, owned, creates, writes, denies,
          panicked, ret, opening>>

\* Lengths that inode_create is called with: direct-only files, files with
\* an index tree (125 and 137 data sectors), a file that fits the addressing
\* ceiling exactly (16508 data sectors) and one past it (16509).
SmallLengths == {0, 600}
Lengths == {0, 600, 64000, 70000, 8452096, 8452608}

\* Patterns the callers' write buffers hold.
Patterns == {1, 2}

\* (size, offset) pairs that read and write are called with on an inode: a
\* range across a sector boundary, one whole sector, a range that a length of
\* 600 cuts short, the first 600 bytes, and a range across the last direct
\* sector and the first indirect one.
IOArgs(inode) ==
  {<<100, 500>>, <<512, 512>>, <<5, 598>>, <<600, 0>>, <<1000, 63300>>}

\* The whole file.
WholeFile(inode) == {<<inode_length(inode), 0>>}

\* What calloc gives inode_create: <<the inode buffer, the index buffers>>.
MemCases == {<<TRUE, TRUE>>, <<FALSE, TRUE>>, <<TRUE, FALSE>>}

\* The lowest and the highest free sector.
LowHigh(fm) == IF fm = {} THEN {} ELSE {Min(fm), ScanDown(fm, NumSectors - 1)}

\* Addresses of the records in the list.
Addrs == {open_inodes[i].addr : i \in 1 .. Len(open_inodes)}

Inode(addr) == open_inodes[ElemOf(open_inodes, addr)]

\* Lengths for the walks over the index tree alone: for every number of
\* second-level index sectors up to one past the 128 a first-level index
\* sector holds, the lengths that fill the last of them but one sector,
\* fill it exactly and start the next (a byte more); and lengths far
\* above the ceiling.
MaxSecondLevels == 129

WalkLengths ==
  {0, 600, 2147483136, 1073741824}
    \cup UNION {{(DIRECT_BLOCK + IB_SLOTS * j) * BLOCK_SECTOR_SIZE + d :
                  d \in {-BLOCK_SECTOR_SIZE, 0, 1}} : j \in 0 .. MaxSecondLevels}

\* No thread is inside inode_open.
NotOpening == [t \in Threads |-> [pc |-> "idle", sector |-> 0]]

\* Sectors 0 and 1 hold the free map's and the root directory's inodes; the
\* rest is free.  Nothing is open, the device has not been written.
Init ==
  /\ free_map = Sectors \ {0, 1}
  /\ disk = <<>>
  /\ open_inodes = <<>>
  /\ files = {}
  /\ owned = <<>>
  /\ creates = 0
  /\ writes = 0
  /\ denies = 0
  /\ panicked = FALSE
  /\ ret = [op |-> "init"]
  /\ opening = NotOpening

\* The kernel stops in call (a failed assertion, a fault on a wild or null
\* pointer, a sector number the device does not have).  Nothing runs after
\* that and nothing of the machine is observed: the model keeps only which
\* call stopped it.
Halt(call) ==
  /\ panicked' = TRUE
  /\ ret' = [op |-> "panic", call |-> call]
  /\ free_map' = Sectors \ {0, 1}
  /\ disk' = <<>>
  /\ open_inodes' = <<>>
  /\ files' = {}
  /\ owned' = <<>>
  /\ creates' = 0
  /\ writes' = 0
  /\ denies' = 0
  /\ opening' = NotOpening

\* The caller reserves the free sector for the inode record, calls
\* inode_create (sector, length) and gives the sector back when the call
\* fails.
Create(sector, length, inode_mem, index_mem) ==
  /\ ~panicked
  /\ creates < MaxCreates
  /\ sector \in free_map
  /\ \E r \in {inode_create(sector, length, free_map \ {sector}, disk,
                            inode_mem, index_mem)} :
       IF r.panic THEN Halt("create")
       ELSE /\ free_map' = IF r.success THEN r.fm ELSE r.fm \cup {sector}
            /\ disk' = r.dsk
            /\ files' = IF r.success THEN files \cup {sector} ELSE files
            /\ owned' = IF r.success
                        THEN [s \in (DOMAIN owned) \cup {sector} |->
                                IF s = sector THEN r.log ELSE owned[s]]
                        ELSE owned
            /\ creates' = IF r.success THEN creates + 1 ELSE creates
            /\ ret' = [op |-> "create", sector |-> sector, length |-> length,
                       success |-> r.success, total_sectors |-> r.total_sectors,
                       log |-> r.log, freed |-> r.freed]
            /\ UNCHANGED <<open_inodes, writes, denies, panicked, opening>>

Open(sector, mem) ==
  /\ ~panicked
  /\ sector \in files
  /\ \A i \in 1 .. Len(open_inodes) :
       open_inodes[i].sector = sector => open_inodes[i].open_cnt < MaxOpen
  /\ \E r \in {inode_open(open_inodes, sector, disk, mem)} :
       /\ open_inodes' = r.list
       /\ ret' = [op |-> "open", sector |-> sector, inode |-> r.inode]
  /\ UNCHANGED <<free_map, disk, files, owned, creates, writes, denies, panicked, opening>>

\* Thread t runs the loop of inode_open (sector).  Nothing in inode_open
\* keeps another thread out: a thread that found no record can be preempted
\* before it pushes its own.
OpenScan(t, sector) ==
  /\ ~panicked
  /\ opening[t].pc = "idle"
  /\ sector \in files
  /\ \A i \in 1 .. Len(open_inodes) :
       open_inodes[i].sector = sector => open_inodes[i].open_cnt < MaxOpen
  /\ \E r \in {inode_open_scan(open_inodes, sector)} :
       IF r.found
       THEN /\ open_inodes' = r.list
            /\ ret' = [op |-> "open", sector |-> sector, inode |-> r.inode]
            /\ UNCHANGED opening
       ELSE /\ opening' = [opening EXCEPT ![t] = [pc |-> "insert",
                                                   sector |-> sector]]
            /\ UNCHANGED <<open_inodes, ret>>
  /\ UNCHANGED <<free_map, disk, files, owned, creates, writes, denies, panicked>>

\* Thread t, its loop over, allocates and pushes its record.
OpenInsert(t, mem) ==
  /\ ~panicked
  /\ opening[t].pc = "insert"
  /\ \E r \in {inode_open_insert(open_inodes, opening[t].sector, disk, mem)} :
       /\ open_inodes' = r.list
       /\ ret' = [op |-> "open", sector |-> opening[t].sector, inode |-> r.inode]
  /\ opening' = [opening EXCEPT ![t] = [pc |-> "idle", sector |-> 0]]
  /\ UNCHANGED <<free_map, disk, files, owned, creates, writes, denies, panicked>>

\* The two walks over the index tree of a file of this length, by their
\* counters: the allocation walk of the create that accepts the length and
\* the deallocation walk of the last close after a remove.  One file is
\* walked per run.
Walks(length) ==
  /\ ~panicked
  /\ ret.op = "init"
  /\ \E a \in {within_ceiling(length)} :
     \E w \in {IF a THEN AllocIndexes(compute_total_sectors(
                                        bytes_to_sectors(length)))
                ELSE [i |-> 0, ib_index |-> 0, panic |-> FALSE, done |-> TRUE]} :
     \E c \in {IF a THEN CloseIndexes(length)
                ELSE [i |-> 0, k |-> 0, past |-> FALSE, done |-> TRUE]} :
       ret' = [op |-> "walks", length |-> length, accepted |-> a,
               ib_index |-> w.ib_index, assert_failed |-> w.panic,
               k |-> c.k, past |-> c.past]
  /\ UNCHANGED <<free_map, disk, open_inodes, files, owned, creates, writes,
                 denies, panicked, opening>>

Reopen(addr) ==
  /\ ~panicked
  /\ addr \in Addrs
  /\ Inode(addr).open_cnt < MaxOpen
  /\ open_inodes' = inode_reopen(open_inodes, addr)
  /\ ret' = [op |-> "reopen", inode |-> addr]
  /\ UNCHANGED <<free_map, disk, files, owned, creates, writes, denies, panicked, opening>>

Close(addr, ptr_ok) ==
  /\ ~panicked
  /\ addr \in Addrs
  /\ \E inode \in {Inode(addr)} :
     \E r \in {inode_close(open_inodes, addr, free_map, disk, ptr_ok)} :
       IF r.panic THEN Halt("close")
       ELSE /\ open_inodes' = r.list
            /\ free_map' = r.fm
            /\ files' = IF r.freed /\ inode.removed
                        THEN files \ {inode.sector} ELSE files
            /\ ret' = [op |-> "close", inode |-> addr, sector |-> inode.sector,
                       last |-> (inode.open_cnt = 1), removed |-> inode.removed,
                       released |-> r.released]
            /\ UNCHANGED <<disk, owned, creates, writes, denies, panicked, opening>>

Remove(addr) ==
  /\ ~panicked
  /\ addr \in Addrs
  /\ open_inodes' = inode_remove(open_inodes, addr)
  /\ ret' = [op |-> "remove", inode |-> addr]
  /\ UNCHANGED <<free_map, disk, files, owned, creates, writes, denies, panicked, opening>>

DenyWrite(addr) ==
  /\ ~panicked
  /\ addr \in Addrs
  /\ denies < MaxDenies
  /\ \E r \in {inode_deny_write(open_inodes, addr)} :
       IF r.panic THEN Halt("deny_write")
       ELSE /\ open_inodes' = r.list
            /\ denies' = denies + 1
            /\ ret' = [op |-> "deny_write", inode |-> addr]
            /\ UNCHANGED <<free_map, disk, files, owned, creates, writes, panicked, opening>>

AllowWrite(addr) ==
  /\ ~panicked
  /\ addr \in Addrs
  /\ \E r \in {inode_allow_write(open_inodes, addr)} :
       IF r.panic THEN Halt("allow_write")
       ELSE /\ open_inodes' = r.list
            /\ ret' = [op |-> "allow_write", inode |-> addr]
            /\ UNCHANGED <<free_map, disk, files, owned, creates, writes, denies, panicked, opening>>

Read(addr, a, bounce_mem, ptr_ok) ==
  /\ ~panicked
  /\ addr \in Addrs
  /\ \E r \in {inode_read_at(Inode(addr), disk, a[1], a[2], bounce_mem, ptr_ok)} :
       IF r.panic THEN Halt("read")
       ELSE /\ ret' = [op |-> "read", inode |-> addr, size |-> a[1],
                       offset |-> a[2], bytes |-> r.bytes_read, data |-> r.data,
                       chunks |-> r.chunks, bounce_mem |-> bounce_mem]
            /\ UNCHANGED <<free_map, disk, open_inodes, files, owned, creates,
                           writes, denies, panicked, opening>>

Write(addr, pat, a, bounce_mem, ptr_ok) ==
  /\ ~panicked
  /\ addr \in Addrs
  /\ writes < MaxWrites
  /\ \E r \in {inode_write_at(Inode(addr), disk, pat, a[1], a[2], bounce_mem,
                              ptr_ok)} :
       IF r.panic THEN Halt("write")
       ELSE /\ disk' = r.dsk
            /\ writes' = IF r.chunks # <<>> THEN writes + 1 ELSE writes
            /\ ret' = [op |-> "write", inode |-> addr, pat |-> pat,
                       size |-> a[1], offset |-> a[2], bytes |-> r.bytes_written,
                       chunks |-> r.chunks, bounce_mem |-> bounce_mem]
            /\ UNCHANGED <<free_map, open_inodes, files, owned, creates, denies,
                           panicked, opening>>

\* The calls, with the arguments the callers pass.
CreateCall(lengths, sectors) ==
  \E sector \in sectors, length \in lengths, mem \in MemCases :
    Create(sector, length, mem[1], mem[2])

OpenCall == \E sector \in files, mem \in BOOLEAN : Open(sector, mem)

OpenScanCall == \E t \in Threads, sector \in files : OpenScan(t, sector)

OpenInsertCall == \E t \in Threads, mem \in BOOLEAN : OpenInsert(t, mem)

WalksCall == \E length \in WalkLengths : Walks(length)

ReopenCall == \E addr \in Addrs : Reopen(addr)

CloseCall == \E addr \in Addrs, ptr_ok \in BOOLEAN : Close(addr, ptr_ok)

RemoveCall == \E addr \in Addrs : Remove(addr)

DenyWriteCall == \E addr \in Addrs : DenyWrite(addr)

AllowWriteCall == \E addr \in Addrs : AllowWrite(addr)

ReadCall(whole) ==
  \E addr \in Addrs, bounce_mem \in BOOLEAN, ptr_ok \in BOOLEAN :
    \E a \in IF whole THEN WholeFile(Inode(addr)) ELSE IOArgs(Inode(addr)) :
      Read(addr, a, bounce_mem, ptr_ok)

WriteCall(whole, pats) ==
  \E addr \in Addrs, pat \in pats, bounce_mem \in BOOLEAN, ptr_ok \in BOOLEAN :
    \E a \in IF whole THEN WholeFile(Inode(addr)) ELSE IOArgs(Inode(addr)) :
      Write(addr, pat, a, bounce_mem, ptr_ok)

\* The whole layer: every call, on files of every length.
Next ==
  \/ CreateCall(Lengths, LowHigh(free_map))
  \/ OpenCall
  \/ ReopenCall
  \/ CloseCall
  \/ RemoveCall
  \/ DenyWriteCall
  \/ AllowWriteCall
  \/ ReadCall(FALSE)
  \/ WriteCall(FALSE, Patterns)

Spec == Init /\ [][Next]_vars

\* Creation, removal and reuse of sectors: one file at a time, of every
\* length, its inode sector the lowest or the highest free one.
NextAlloc ==
  \/ files = {} /\ CreateCall(Lengths, LowHigh(free_map))
  \/ OpenCall
  \/ RemoveCall
  \/ CloseCall

SpecAlloc == Init /\ [][NextAlloc]_vars

\* The life of one inode: open, reopen, remove, read, write, close.
NextRemove ==
  \/ creates = 0 /\ CreateCall({600, 64000}, {Min(free_map)})
  \/ OpenCall
  \/ ReopenCall
  \/ RemoveCall
  \/ ReadCall(FALSE)
  \/ WriteCall(FALSE, {1})
  \/ CloseCall

SpecRemove == Init /\ [][NextRemove]_vars

\* Write protection of one inode.
NextDeny ==
  \/ creates = 0 /\ CreateCall({600, 64000}, {Min(free_map)})
  \/ OpenCall
  \/ ReopenCall
  \/ CloseCall
  \/ DenyWriteCall
  \/ AllowWriteCall
  \/ WriteCall(FALSE, {1})

SpecDeny == Init /\ [][NextDeny]_vars

\* Reuse of released sectors: a file with an index tree is created, removed
\* and closed, a second one is created, and the second is written whole once
\* and read back whole.
NextReuse ==
  \/ files = {} /\ CreateCall({64000}, LowHigh(free_map))
  \/ writes = 0 /\ OpenCall
  \/ writes = 0 /\ RemoveCall
  \/ writes = 0 /\ CloseCall
  \/ creates > 1 /\ WriteCall(TRUE, {1})
  \/ writes > 0 /\ ReadCall(TRUE)

SpecReuse == Init /\ [][NextReuse]_vars

\* The registry of open inodes, on two files.
NextRegistry ==
  \/ CreateCall(SmallLengths, {Min(free_map)})
  \/ OpenCall
  \/ ReopenCall
  \/ CloseCall

SpecRegistry == Init /\ [][NextRegistry]_vars

\* Files that stay: two files are created, with or without an index tree,
\* and opened; nothing is removed or closed.
NextLive ==
  \/ CreateCall({600, 64000}, {Min(free_map)})
  \/ OpenCall

SpecLive == Init /\ [][NextLive]_vars

\* Writes over stale bytes: a file is created, removed and closed, and a
\* second file, whose data sectors may be sectors the first one gave back,
\* is written once.
NextStale ==
  \/ files = {} /\ CreateCall({600}, LowHigh(free_map))
  \/ OpenCall
  \/ RemoveCall
  \/ CloseCall
  \/ creates > 1 /\ WriteCall(FALSE, {1})

SpecStale == Init /\ [][NextStale]_vars

\* Threads that open at the same time, on two files: each inode_open is two
\* steps, its loop and its push, and the threads' steps come in any order.
NextThreads ==
  \/ creates < 2 /\ CreateCall({600}, {Min(free_map)})
  \/ OpenScanCall
  \/ OpenInsertCall

SpecThreads == Init /\ [][NextThreads]_vars

\* The index arithmetic of create and close on files of every size up to
\* and past the ceiling, which no device of NumSectors sectors can hold.
NextWalks == WalksCall

SpecWalks == Init /\ [][NextWalks]_vars

\* ------------------------------------------------------------ properties

\* C1: the last close of a removed file releases exactly the sectors the file
\* owns, each once: every sector its create allocated (data sectors and index
\* sectors) and the inode sector, and no other sector.
C1_ReleasesExactlyOwned ==
  (ret.op = "close" /\ ret.last /\ ret.removed) =>
    LET log == owned[ret.sector]
        own == {log[i].sector : i \in 1 .. Len(log)} \cup {ret.sector}
        rel == ret.released
    IN  /\ {rel[i] : i \in 1 .. Len(rel)} = own
        /\ Len(rel) = Cardinality(own)

\* C2: the last close of a removed file raises the free count by the number
\* of sectors the file occupied: those its create allocated plus the inode
\* sector.
C2_FreeCountRisesByOccupied ==
  [][(ret'.op = "close" /\ ret'.last /\ ret'.removed) =>
       free_map_unused(free_map') - free_map_unused(free_map)
         = Len(owned[ret'.sector]) + 1]_vars

\* C3: remove only sets the removed flag; a sector is released only by the
\* close that brings open_cnt to zero on a removed inode, never while the
\* record stays registered; a read or a write through a handle transfers what
\* the same call transfers with the flag clear.
C3_RemoveDefersRelease ==
  [][~panicked' =>
       /\ (ret'.op = "remove" =>
             /\ free_map' = free_map
             /\ disk' = disk
             /\ open_inodes' =
                  [open_inodes EXCEPT ![ElemOf(open_inodes, ret'.inode)].removed =
                                         TRUE])
       /\ (free_map' \ free_map # {} =>
             ret'.op = "close" /\ ret'.last /\ ret'.removed)
       /\ (ret'.op = "close" /\ ~ret'.last =>
             /\ free_map' = free_map
             /\ \E i \in 1 .. Len(open_inodes') :
                  /\ open_inodes'[i].addr = ret'.inode
                  /\ open_inodes'[i].open_cnt > 0)
       /\ (ret'.op = "read" =>
             \E r \in {inode_read_at([Inode(ret'.inode) EXCEPT !.removed = FALSE],
                                     disk, ret'.size, ret'.offset,
                                     ret'.bounce_mem, TRUE)} :
               /\ ret'.bytes = r.bytes_read
               /\ ret'.data = r.data)
       /\ (ret'.op = "write" =>
             \E r \in {inode_write_at([Inode(ret'.inode) EXCEPT !.removed = FALSE],
                                      disk, ret'.pat, ret'.size, ret'.offset,
                                      ret'.bounce_mem, TRUE)} :
               /\ ret'.bytes = r.bytes_written
               /\ disk' = r.dsk)]_vars

\* C3, the case reached: a read through a handle of a removed inode returns
\* the whole 600-byte file after a write reached the device.
C3_ReadAfterRemove ==
  /\ ret.op = "read"
  /\ Inode(ret.inode).removed
  /\ ret.bytes = 600
  /\ writes > 0

\* C4: a successful create of n = ceil(length / 512) data sectors takes n
\* sectors from the free map when n <= 124 and n + 1 + ceil((n - 124) / 128)
\* when n > 124, the inode sector not counted.
C4_SectorsTaken ==
  (ret.op = "create" /\ ret.success) =>
    LET n == (ret.length + 511) \div 512
    IN  Len(ret.log) = IF n <= 124 THEN n
                       ELSE n + 1 + ((n - 124 + 127) \div 128)

\* C5: byte_to_sector gives different sectors for offsets below the length
\* that lie in different 512-byte ranges of the file.
C5_NoAliasing ==
  \A e \in 1 .. Len(open_inodes) :
    LET data == open_inodes[e].data
        n == bytes_to_sectors(data.length)
        res == [i \in 0 .. (n - 1) |->
                  byte_to_sector(data, i * BLOCK_SECTOR_SIZE, disk, TRUE)]
    IN  (\A i \in 0 .. (n - 1) : ~res[i].panic) =>
          Cardinality({res[i].sector : i \in 0 .. (n - 1)}) = n

\* C6: a write of a pattern over the whole file [0, length) of an open inode
\* whose writes are not denied, followed by a read of [0, length), returns
\* length bytes that are exactly the pattern.
C6_RoundTrip ==
  [][(/\ ret.op = "write"
      /\ ret'.op = "read"
      /\ ret'.inode = ret.inode
      /\ ret.offset = 0
      /\ ret.size = inode_length(Inode(ret.inode))
      /\ ret.bytes = ret.size
      /\ ret'.offset = 0
      /\ ret'.size = ret.size) =>
       /\ ret'.bytes = ret.size
       /\ ret'.data = [j \in 0 .. (ret.size - 1) |-> Pattern(ret.pat, j)]]_vars

\* C7: a create that returns false has allocated no sector and written no
\* sector; and every length whose tree needs more than 16637 sectors is
\* refused.
C7_FailedCreateLeavesNoTrace ==
  [][(ret'.op = "create") =>
       /\ (~ret'.success =>
             /\ ret'.log = <<>>
             /\ free_map' = free_map
             /\ disk' = disk
             /\ files' = files)
       /\ LET n == (ret'.length + 511) \div 512
              need == IF n <= 124 THEN n
                      ELSE n + 1 + ((n - 124 + 127) \div 128)
          IN  need > 16637 => ~ret'.success]_vars

\* C7, the case reached: after an earlier file left sectors written, a create
\* is refused because its tree is above the ceiling.
C7_RefusedAboveCeiling ==
  /\ ret.op = "create"
  /\ ~ret.success
  /\ ret.total_sectors > MAX_BLOCK_NUMBER
  /\ disk # <<>>

\* C8: while no assertion has fired, every open inode has
\* deny_write_cnt <= open_cnt, after a close as after any other call.
C8_DenyAtMostOpen ==
  ~panicked =>
    \A i \in 1 .. Len(open_inodes) :
      open_inodes[i].deny_write_cnt <= open_inodes[i].open_cnt

\* C9: a write on an inode whose deny_write_cnt is positive returns 0 and
\* leaves the device as it was; a write on an inode whose count is zero
\* transfers the bytes of the requested range that lie below the length, and
\* they read back as the pattern written.
C9_DeniedWritesTransferNothing ==
  [][(ret'.op = "write") =>
       LET inode == Inode(ret'.inode)
           left == inode_length(inode) - ret'.offset
           expect == IF left <= 0 THEN 0 ELSE MinOf(ret'.size, left)
       IN  IF inode.deny_write_cnt > 0
           THEN ret'.bytes = 0 /\ disk' = disk
           ELSE ret'.bounce_mem =>
                  /\ ret'.bytes = expect
                  /\ inode_read_at(inode, disk', expect, ret'.offset, TRUE,
                                   TRUE).data
                       = [j \in 0 .. (expect - 1) |-> Pattern(ret'.pat, j)]]_vars

\* C9, the case reached: after deny_write and allow_write have brought the
\* count back to zero, a write transfers bytes.
C9_WriteAfterAllow ==
  /\ ret.op = "write"
  /\ ret.bytes > 0
  /\ denies > 0
  /\ Inode(ret.inode).deny_write_cnt = 0

\* C10: the list holds at most one record per sector; an open of a sector
\* that has a record returns that record, its open_cnt one higher, and adds
\* no record; a close that is not the last leaves the record in the list with
\* a positive open_cnt.
C10_OneRecordPerSector ==
  [][/\ \A i, j \in 1 .. Len(open_inodes') :
          open_inodes'[i].sector = open_inodes'[j].sector => i = j
     /\ (ret'.op = "open" =>
           \A i \in 1 .. Len(open_inodes) :
             open_inodes[i].sector = ret'.sector =>
               /\ ret'.inode = open_inodes[i].addr
               /\ open_inodes' =
                    [open_inodes EXCEPT ![i].open_cnt = @ + 1])
     /\ (ret'.op = "close" /\ ~ret'.last =>
           \E i \in 1 .. Len(open_inodes) :
             /\ open_inodes[i].addr = ret'.inode
             /\ open_inodes[i].open_cnt > 1
             /\ open_inodes' = [open_inodes EXCEPT ![i].open_cnt = @ - 1])]_vars

\* C10, the case reached: with two inodes open, an open returned the record
\* of a sector already open, which now counts two openers.
C10_SharedRecord ==
  /\ ret.op = "open"
  /\ Len(open_inodes) = 2
  /\ \E i \in 1 .. Len(open_inodes) :
       /\ open_inodes[i].addr = ret.inode
       /\ open_inodes[i].open_cnt = 2


\* C11: a read of an opened inode whose scratch buffer can be allocated
\* returns: it hands back min(size, max(0, length - offset)) bytes, and every
\* sector it reads from the device is the one byte_to_sector gives for an
\* offset of the range below the length, never the not-found result.
C11_ReadReturnsAvailable ==
  /\ ~(ret.op = "panic" /\ ret.call = "read")
  /\ (ret.op = "read" /\ ret.bounce_mem) =>
       LET inode == Inode(ret.inode)
           left == inode_length(inode) - ret.offset
           expect == IF left <= 0 THEN 0 ELSE MinOf(ret.size, left)
       IN  /\ ret.bytes = expect
           /\ \A i \in 1 .. Len(ret.chunks) :
                LET pos == IF i = 1 THEN ret.offset
                           ELSE ((ret.offset \div BLOCK_SECTOR_SIZE) + i - 1)
                                  * BLOCK_SECTOR_SIZE
                IN  /\ pos < inode_length(inode)
                    /\ ret.chunks[i].sector # NOT_FOUND
                    /\ ret.chunks[i].sector
                         = byte_to_sector(inode.data, pos, disk, TRUE).sector

\* C12: a write to an opened inode whose writes are not denied returns, and
\* returns min(size, max(0, length - offset)); it changes no sector but the
\* ones byte_to_sector gives for the offsets it wrote, and leaves the list of
\* open inodes (so the cached length and slots), the inode's sector on the
\* device, its index sectors and the free map as they were.
C12_WriteFrame ==
  [][/\ ~(ret'.op = "panic" /\ ret'.call = "write")
     /\ (ret'.op = "write" /\ Inode(ret'.inode).deny_write_cnt = 0) =>
          LET inode == Inode(ret'.inode)
              left == inode_length(inode) - ret'.offset
              expect == IF left <= 0 THEN 0 ELSE MinOf(ret'.size, left)
              first == ret'.offset \div BLOCK_SECTOR_SIZE
              last == (ret'.offset + ret'.bytes - 1) \div BLOCK_SECTOR_SIZE
              written == IF ret'.bytes = 0 THEN {}
                         ELSE {byte_to_sector(inode.data, k * BLOCK_SECTOR_SIZE,
                                              disk, TRUE).sector :
                                 k \in first .. last}
              sectors == bytes_to_sectors(inode_length(inode))
              seconds == IF sectors <= DIRECT_BLOCK THEN {}
                         ELSE {WordAt(block_read(disk, inode.data.ib), j) :
                                 j \in 0 .. ((sectors - DIRECT_BLOCK - 1)
                                               \div IB_SLOTS)}
              index == IF sectors <= DIRECT_BLOCK THEN {}
                       ELSE {inode.data.ib} \cup seconds
          IN  /\ ret'.bytes = expect
              /\ open_inodes' = open_inodes
              /\ free_map' = free_map
              /\ \A s \in Sectors \ written :
                   block_read(disk', s) = block_read(disk, s)
              /\ \A s \in {inode.sector} \cup index :
                   block_read(disk', s) = block_read(disk, s)]_vars

\* C13: when inode_create (sector, length) has succeeded and the next call is
\* an inode_open (sector) that returns an inode, inode_length of that inode is
\* the length the create was given.
C13_LengthSurvivesCreateOpen ==
  [][(/\ ret.op = "create" /\ ret.success
      /\ ret'.op = "open" /\ ret'.sector = ret.sector /\ ret'.inode # 0) =>
       \E i \in 1 .. Len(open_inodes') :
          /\ open_inodes'[i].addr = ret'.inode
          /\ inode_length(open_inodes'[i]) = ret.length]_vars

\* A file of 70000 bytes, a length of three bytes, has been created and is
\* open for the first time.
C13_LongFileOpened ==
  /\ ret.op = "open" /\ ret.inode # 0
  /\ Inode(ret.inode).open_cnt = 1
  /\ inode_length(Inode(ret.inode)) = 70000

\* C14: after a successful create the tree on the device holds the file: the
\* direct and second-level slots that hold a sector this create allocated
\* number ceil(length / 512), the sectors the create allocated (data and
\* index sectors) are pairwise distinct, and every offset below the length
\* resolves to a sector this create allocated.
C14_TreeHoldsFile ==
  (ret.op = "create" /\ ret.success) =>
    LET data == DecodeInode(block_read(disk, ret.sector))
        n == bytes_to_sectors(ret.length)
        fresh == {ret.log[i].sector : i \in 1 .. Len(ret.log)}
        first_ib == block_read(disk, data.ib)
        seconds == IF n <= DIRECT_BLOCK THEN {}
                   ELSE {j \in 0 .. (IB_SLOTS - 1) : WordAt(first_ib, j) \in fresh}
        slots == {<<0, k>> : k \in {k \in 0 .. (DIRECT_BLOCK - 1) :
                                      data.sectors[k] \in fresh}}
                 \cup UNION {{<<j + 1, k>> :
                                k \in {k \in 0 .. (IB_SLOTS - 1) :
                                         WordAt(block_read(disk,
                                                  WordAt(first_ib, j)), k)
                                           \in fresh}} : j \in seconds}
    IN  /\ Cardinality(slots) = n
        /\ Cardinality(fresh) = Len(ret.log)
        /\ \A k \in 0 .. (n - 1) :
             byte_to_sector(data, k * BLOCK_SECTOR_SIZE, disk, TRUE).sector
               \in fresh

\* C15: with no file removed, two open inodes never resolve offsets below
\* their lengths to the same sector: the sets of sectors byte_to_sector gives
\* for the two files are disjoint.
C15_LiveFilesShareNoSector ==
  \A e1, e2 \in 1 .. Len(open_inodes) :
    e1 # e2 =>
      LET A == open_inodes[e1].data
          B == open_inodes[e2].data
          resolve(d) == {byte_to_sector(d, k * BLOCK_SECTOR_SIZE, disk,
                                        TRUE).sector :
                           k \in 0 .. (bytes_to_sectors(d.length) - 1)}
      IN  resolve(A) \cap resolve(B) = {}

\* C16: a write leaves every byte of a sector it covers only in part as it
\* was on the device, unless the byte lies in a range the write copied to
\* that sector: the bytes before a chunk that starts inside the sector and
\* the bytes after a chunk that ends inside it (cut by size or by the file's
\* length) are not changed.
C16_PartialWriteKeepsRest ==
  [][ret'.op = "write" =>
       \A i \in 1 .. Len(ret'.chunks) :
         LET c == ret'.chunks[i]
             copied == {j \in 0 .. (BLOCK_SECTOR_SIZE - 1) :
                          \E k \in 1 .. Len(ret'.chunks) :
                             /\ ret'.chunks[k].sector = c.sector
                             /\ ret'.chunks[k].sector_ofs <= j
                             /\ j < ret'.chunks[k].sector_ofs
                                      + ret'.chunks[k].chunk_size}
         IN  c.chunk_size < BLOCK_SECTOR_SIZE =>
               \A j \in (0 .. (BLOCK_SECTOR_SIZE - 1)) \ copied :
                  block_read(disk', c.sector)[j] = block_read(disk, c.sector)[j]]_vars

\* A write has copied to the tail of a sector that still holds bytes other
\* than zero before the range written.
C16_WroteTailOfUsedSector ==
  /\ ret.op = "write"
  /\ \E i \in 1 .. Len(ret.chunks) :
       /\ ret.chunks[i].sector_ofs > 0
       /\ \E j \in 0 .. (ret.chunks[i].sector_ofs - 1) :
            block_read(disk, ret.chunks[i].sector)[j] # 0

\* C17: the records of open_inodes are the records with open_cnt >= 1, one
\* per address.  An open of a sector no record has pushes a record with
\* open_cnt 1, removed false and deny_write_cnt 0; an open of a sector that
\* has a record, and a reopen, add one to its open_cnt; a close takes one off,
\* and the close that reaches zero takes the record out of the list.  No call
\* touches another record.
C17_RecordLifecycle ==
  [][LET Rec(list, addr) == list[ElemOf(list, addr)]
         Has(list, addr) == \E i \in 1 .. Len(list) : list[i].addr = addr
         Others(addr) ==
           SelectSeq(open_inodes', LAMBDA e : e.addr # addr)
             = SelectSeq(open_inodes, LAMBDA e : e.addr # addr)
     IN  /\ \A i \in 1 .. Len(open_inodes') : open_inodes'[i].open_cnt >= 1
         /\ \A i, j \in 1 .. Len(open_inodes') :
              open_inodes'[i].addr = open_inodes'[j].addr => i = j
         /\ (ret'.op = "open" /\ ret'.inode # 0) =>
              /\ Others(ret'.inode)
              /\ Has(open_inodes', ret'.inode)
              /\ IF \E i \in 1 .. Len(open_inodes) :
                      open_inodes[i].sector = ret'.sector
                 THEN /\ Has(open_inodes, ret'.inode)
                      /\ Rec(open_inodes', ret'.inode)
                           = [Rec(open_inodes, ret'.inode) EXCEPT
                                !.open_cnt = @ + 1]
                 ELSE /\ ~Has(open_inodes, ret'.inode)
                      /\ open_inodes'[1].addr = ret'.inode
                      /\ open_inodes'[1].sector = ret'.sector
                      /\ open_inodes'[1].open_cnt = 1
                      /\ open_inodes'[1].removed = FALSE
                      /\ open_inodes'[1].deny_write_cnt = 0
         /\ (ret'.op = "open" /\ ret'.inode = 0) => open_inodes' = open_inodes
         /\ ret'.op = "reopen" =>
              /\ Others(ret'.inode)
              /\ Rec(open_inodes', ret'.inode)
                   = [Rec(open_inodes, ret'.inode) EXCEPT !.open_cnt = @ + 1]
         /\ ret'.op = "close" =>
              /\ Others(ret'.inode)
              /\ IF Rec(open_inodes, ret'.inode).open_cnt = 1
                 THEN ~Has(open_inodes', ret'.inode)
                 ELSE Rec(open_inodes', ret'.inode)
                        = [Rec(open_inodes, ret'.inode) EXCEPT
                             !.open_cnt = @ - 1]]_vars

\* The last opener of a record has closed it: the record is out of the list.
C17_LastCloseUnregisters ==
  /\ ret.op = "close" /\ ret.last
  /\ \A i \in 1 .. Len(open_inodes) : open_inodes[i].addr # ret.inode

\* C18: inode_open is not atomic.  When a thread that found no record for
\* its sector pushes its own, any record another thread has pushed for the
\* same sector in between stays as it is and a second, distinct record with
\* open_cnt 1 joins it in the list.
C18_InsertAfterScanDuplicates ==
  [][\A t \in Threads :
       (/\ opening[t].pc = "insert" /\ opening'[t].pc = "idle"
        /\ ret'.op = "open" /\ ret'.inode # 0) =>
         LET s == opening[t].sector
             Of(list) == {i \in 1 .. Len(list) : list[i].sector = s}
         IN  /\ Cardinality(Of(open_inodes')) = Cardinality(Of(open_inodes)) + 1
             /\ open_inodes'[1].addr = ret'.inode
             /\ open_inodes'[1].sector = s
             /\ open_inodes'[1].open_cnt = 1
             /\ \A i \in 1 .. Len(open_inodes) :
                  /\ open_inodes'[i + 1] = open_inodes[i]
                  /\ open_inodes[i].addr # ret'.inode]_vars

\* Two threads have opened the same sector, each having finished its loop
\* before the other pushed: the list holds two records for the sector, each
\* with open_cnt 1.
C18_TwoRecordsOneSector ==
  /\ \A t \in Threads : opening[t].pc = "idle"
  /\ \E i, j \in 1 .. Len(open_inodes) :
       /\ i # j
       /\ open_inodes[i].sector = open_inodes[j].sector
       /\ open_inodes[i].addr # open_inodes[j].addr
       /\ open_inodes[i].open_cnt = 1
       /\ open_inodes[j].open_cnt = 1

\* C19: for every length inode_create lets through its ceiling test, both
\* walks stay inside the first-level index sector: the allocation walk never
\* fails ASSERT (ib_index < 128) and fills at most 128 first-level slots, and
\* the deallocation walk never reads first_ib->sectors[k] with k >= 128.
C19_FirstLevelSlotsBelow128 ==
  (ret.op = "walks" /\ ret.accepted) =>
    /\ ~ret.assert_failed
    /\ ret.ib_index <= IB_SLOTS
    /\ ~ret.past
    /\ ret.k <= IB_SLOTS

\* The longest file the ceiling test lets through has been walked: both
\* walks used the last first-level slot, number 127.
C19_LastSlotUsed ==
  /\ ret.op = "walks" /\ ret.accepted
  /\ ret.length = (DIRECT_BLOCK + IB_SLOTS * IB_SLOTS) * BLOCK_SECTOR_SIZE
  /\ ret.ib_index = IB_SLOTS
  /\ ret.k = IB_SLOTS

\* C20: when inode_create returns, the inode-record buffer it got from calloc
\* has been freed, whatever the result (created, capacity exceeded, not
\* enough free sectors, no memory).  The index buffers of the allocation
\* walk are freed inside the walk, and the loops of read and write leave only
\* to the free (bounce) below them, so the record buffer is the one buffer
\* with an exit path of its own.
C20_CreateFreesRecordBuffer ==
  ret.op = "create" => ret.freed

====
